---- MODULE Spec2Model ----
(***************************************************************************)
(* Model of AgentRunDetailsView                                            *)
(* (autogpt_platform/frontend/src/components/agents/                       *)
(*  agent-run-details-view.tsx).                                           *)
(*                                                                         *)
(* The component receives the props agent, graph, run, onRun, deleteRun,   *)
(* derives four views from them on render (infoStats, agentRunInputs,      *)
(* agentRunOutputs, runActions), and wires two handlers (runAgain,         *)
(* stopRun) to the backend API.  The model keeps the props, the outcome of *)
(* the render, the API calls in flight and what the caller and the user    *)
(* observe: onRun calls, deleteRun calls, toasts, unhandled rejections.    *)
(*                                                                         *)
(* A JavaScript string is modelled as a sequence of tokens (Text), so that *)
(* concatenation, charAt/slice and template literals are computed.         *)
(***************************************************************************)
EXTENDS Integers, Sequences, FiniteSets, TLC

VARIABLES
    agent,          \* prop: LibraryAgent
    graph,          \* prop: Graph
    run,            \* prop: GraphExecution | GraphExecutionMeta
    phase,          \* "created" | "mounted" | "crashed" (render threw)
    view,           \* what the last render derived
    executeCalls,   \* api.executeGraph calls, in call order
    stopCalls,      \* api.stopGraphExecution calls, in call order
    onRunCalls,     \* calls of the caller's onRun
    toasts,         \* failure notifications shown by toastOnFail
    unhandled,      \* promise rejections nobody handled
    deleteCalls,    \* calls of the caller's deleteRun
    runAgainCalls,  \* invocations of the runAgain handler
    stopRunCalls    \* invocations of the stopRun handler

vars == <<agent, graph, run, phase, view, executeCalls, stopCalls,
          onRunCalls, toasts, unhandled, deleteCalls, runAgainCalls,
          stopRunCalls>>

(***************************************************************************)
(* Bounds of the model.                                                    *)
(***************************************************************************)
MaxCalls == 2       \* button presses in one behaviour
MaxVersion == 2     \* graph versions are 1..MaxVersion

(***************************************************************************)
(* JavaScript values.                                                      *)
(***************************************************************************)
Num(n) == [type |-> "number", num |-> n, text |-> <<>>, props |-> <<>>]
Str(t) == [type |-> "string", num |-> 0, text |-> t, props |-> <<>>]
Obj(p) == [type |-> "object", num |-> 0, text |-> <<>>, props |-> p]
Null == [type |-> "null", num |-> 0, text |-> <<>>, props |-> <<>>]
Undefined == [type |-> "undefined", num |-> 0, text |-> <<>>, props |-> <<>>]

\* typeof v: null is an object
TypeOf(v) == IF v.type = "null" THEN "object" ELSE v.type

\* String(n) for the small numbers of the model
Digits == <<"0", "1", "2", "3", "4", "5", "6", "7", "8", "9">>
NumText(n) == <<Digits[n + 1]>>

Spaces(n) == [i \in 1..n |-> " "]

RECURSIVE JoinLines(_, _)
JoinLines(lines, sep) ==
    IF lines = <<>> THEN <<>>
    ELSE IF Len(lines) = 1 THEN lines[1]
    ELSE lines[1] \o sep \o JoinLines(Tail(lines), sep)

\* JSON.stringify(v, undefined, indent) of null or of a flat object
JSONStringify(v, indent) ==
    IF v.type = "null" THEN <<"null">>
    ELSE IF v.props = <<>> THEN <<"{}">>
    ELSE <<"{", "\n">>
         \o JoinLines([i \in 1..Len(v.props) |->
                          Spaces(indent)
                          \o <<"\"", v.props[i].key, "\"", ":", " ">>
                          \o NumText(v.props[i].val)],
                      <<",", "\n">>)
         \o <<"\n", "}">>

(***************************************************************************)
(* JavaScript strings as Text.                                             *)
(***************************************************************************)
Lower == <<"a", "b", "c", "d", "e", "f", "g", "h", "i", "j", "k", "l", "m",
           "n", "o", "p", "q", "r", "s", "t", "u", "v", "w", "x", "y", "z">>
Upper == <<"A", "B", "C", "D", "E", "F", "G", "H", "I", "J", "K", "L", "M",
           "N", "O", "P", "Q", "R", "S", "T", "U", "V", "W", "X", "Y", "Z">>

\* s.toUpperCase() of a Text
ToUpperCase(t) ==
    [i \in 1..Len(t) |->
        IF \E j \in 1..Len(Lower) : Lower[j] = t[i]
        THEN Upper[CHOOSE j \in 1..Len(Lower) : Lower[j] = t[i]]
        ELSE t[i]]

\* s.charAt(i), s.slice(from)
CharAt(t, i) == IF i + 1 <= Len(t) THEN <<t[i + 1]>> ELSE <<>>
Slice(t, from) == SubSeq(t, from + 1, Len(t))

\* list.includes(x)
Includes(list, x) == \E i \in 1..Len(list) : list[i] = x

\* lodash isEmpty of an array
isEmpty(list) == Len(list) = 0

\* a value used as a condition (title || key)
Truthy(v) ==
    CASE v.type = "string" -> v.text # <<>>
      [] v.type = "number" -> v.num # 0
      [] v.type = "object" -> TRUE
      [] OTHER -> FALSE

(***************************************************************************)
(* Run statuses.                                                           *)
(***************************************************************************)
draft == Str(<<"d", "r", "a", "f", "t">>)
success == Str(<<"s", "u", "c", "c", "e", "s", "s">>)
failed == Str(<<"f", "a", "i", "l", "e", "d">>)
queued == Str(<<"q", "u", "e", "u", "e", "d">>)
running == Str(<<"r", "u", "n", "n", "i", "n", "g">>)
stopped == Str(<<"s", "t", "o", "p", "p", "e", "d">>)

\* the status -> display status table of agent-run-status-chip
agentRunStatusMap ==
    [s \in {"INCOMPLETE", "COMPLETED", "FAILED", "QUEUED", "RUNNING",
            "TERMINATED"} |->
        CASE s = "INCOMPLETE" -> draft
          [] s = "COMPLETED" -> success
          [] s = "FAILED" -> failed
          [] s = "QUEUED" -> queued
          [] s = "RUNNING" -> running
          [] s = "TERMINATED" -> stopped]

\* agentRunStatusMap[run.status]: undefined for a status the table lacks
runStatusOf(r) ==
    IF r.status \in DOMAIN agentRunStatusMap
    THEN agentRunStatusMap[r.status]
    ELSE Undefined

(***************************************************************************)
(* infoStats.                                                              *)
(***************************************************************************)
\* moment(t).fromNow() + ", " + moment(t).format("HH:mm")
StartedText(t) ==
    <<"fromNow(">> \o NumText(t) \o <<")", ", ", "HH:mm(">> \o NumText(t)
    \o <<")">>

\* moment.duration(d, "seconds").humanize()
Humanize(d) == <<"humanize(">> \o NumText(d) \o <<"s)">>

\* formatCredits of useCredits
formatCredits(c) == <<"credits(">> \o NumText(c) \o <<")">>

\* runStatus.charAt(0) on undefined is a TypeError
infoStatsThrows(runStatus) == runStatus.type = "undefined"

StatsEntries(r) ==
    IF r.hasStats
    THEN << [label |-> "Duration", value |-> Str(Humanize(r.stats.duration))],
            [label |-> "Steps", value |-> Num(r.stats.node_exec_count)],
            [label |-> "Cost", value |-> Str(formatCredits(r.stats.cost))] >>
    ELSE <<>>

\* mutant: the status is shown as it is
infoStats_NotCapitalized(r, runStatus) ==
    << [label |-> "Status", value |-> Str(runStatus.text)],
       [label |-> "Started", value |-> Str(StartedText(r.started_at))] >>
    \o StatsEntries(r)

infoStats(r, runStatus) ==
    << [label |-> "Status",
        value |-> Str(ToUpperCase(CharAt(runStatus.text, 0))
                      \o Slice(runStatus.text, 1))],
       [label |-> "Started", value |-> Str(StartedText(r.started_at))] >>
    \o StatsEntries(r)

(***************************************************************************)
(* agentRunInputs and agentRunOutputs.                                     *)
(***************************************************************************)
\* typeof v == "object" ? JSON.stringify(v, undefined, 2) : v
DisplayValue(v) ==
    IF TypeOf(v) = "object" THEN Str(JSONStringify(v, 2)) ELSE v

\* graph.input_schema.properties[k]?.title
InputTitle(g, k) ==
    IF k \in DOMAIN g.input_schema THEN g.input_schema[k].title
    ELSE Undefined

agentRunInputs(g, r) ==
    IF ~r.hasInputs THEN [defined |-> FALSE, rows |-> <<>>]
    ELSE [defined |-> TRUE,
          rows |-> [i \in 1..Len(r.inputs) |->
                       [key |-> r.inputs[i].key,
                        title |-> InputTitle(g, r.inputs[i].key),
                        value |-> DisplayValue(r.inputs[i].value)]]]

OutputStatuses == <<running, success, failed, stopped>>

\* the state of agentRunOutputs: undefined, null or a map of rows
agentRunOutputsState(r, runStatus) ==
    IF ~r.hasOutputs THEN "undefined"
    ELSE IF ~Includes(OutputStatuses, runStatus) THEN "null"
    ELSE "rows"

\* graph.output_schema.properties[k].title on a missing k is a TypeError
agentRunOutputsThrows(g, r, runStatus) ==
    /\ agentRunOutputsState(r, runStatus) = "rows"
    /\ \E i \in 1..Len(r.outputs) : r.outputs[i].key \notin DOMAIN g.output_schema

agentRunOutputs(g, r, runStatus) ==
    [state |-> agentRunOutputsState(r, runStatus),
     rows |-> IF agentRunOutputsState(r, runStatus) # "rows" THEN <<>>
              ELSE [i \in 1..Len(r.outputs) |->
                       [key |-> r.outputs[i].key,
                        title |-> g.output_schema[r.outputs[i].key].title,
                        values |-> [j \in 1..Len(r.outputs[i].values) |->
                                       DisplayValue(r.outputs[i].values[j])]]]]

(***************************************************************************)
(* runActions.                                                             *)
(***************************************************************************)
NoHref == <<>>

\* mutant: the queued status is forgotten
StopActions_RunningOnly(runStatus) ==
    IF Includes(<<running>>, runStatus)
    THEN << [label |-> "Stop run", variant |-> "secondary",
             callback |-> "stopRun", href |-> NoHref] >>
    ELSE <<>>

StopActions(runStatus) ==
    IF Includes(<<running, queued>>, runStatus)
    THEN << [label |-> "Stop run", variant |-> "secondary",
             callback |-> "stopRun", href |-> NoHref] >>
    ELSE <<>>

\* mutant: the required credentials are not looked at
RunAgainActions_IgnoresCredentials(g, runStatus) ==
    IF /\ Includes(<<success, failed, stopped>>, runStatus)
       /\ ~g.has_external_trigger
    THEN << [label |-> "Run again", variant |-> "default",
             callback |-> "runAgain", href |-> NoHref] >>
    ELSE <<>>

RunAgainActions(g, runStatus) ==
    IF /\ Includes(<<success, failed, stopped>>, runStatus)
       /\ ~g.has_external_trigger
       /\ isEmpty(g.credentials_required)
    THEN << [label |-> "Run again", variant |-> "default",
             callback |-> "runAgain", href |-> NoHref] >>
    ELSE <<>>

\* mutant: the run id and the graph id change places
BuilderHref_Swapped(r) ==
    <<"/build?flowID=", r.id, "&flowVersion=">>
    \o NumText(r.graph_version)
    \o <<"&flowExecutionID=", r.graph_id>>

\* `/build?flowID=${run.graph_id}&flowVersion=${run.graph_version}&flowExecutionID=${run.id}`
BuilderHref(r) ==
    <<"/build?flowID=", r.graph_id, "&flowVersion=">>
    \o NumText(r.graph_version)
    \o <<"&flowExecutionID=", r.id>>

BuilderActions(ag, r) ==
    IF ag.can_access_graph
    THEN << [label |-> "Open run in builder", variant |-> "default",
             callback |-> "none", href |-> BuilderHref(r)] >>
    ELSE <<>>

DeleteAction ==
    [label |-> "Delete run", variant |-> "secondary",
     callback |-> "deleteRun", href |-> NoHref]

\* mutant: "Delete run" is put first
runActions_DeleteFirst(ag, g, r, runStatus) ==
    <<DeleteAction>> \o StopActions(runStatus)
    \o RunAgainActions(g, runStatus) \o BuilderActions(ag, r)

runActions(ag, g, r, runStatus) ==
    StopActions(runStatus) \o RunAgainActions(g, runStatus)
    \o BuilderActions(ag, r) \o <<DeleteAction>>

(***************************************************************************)
(* Render: the cards and their rows.                                       *)
(***************************************************************************)
\* {title || key}
RowLabel(row) == IF Truthy(row.title) THEN row.title ELSE Str(<<row.key>>)

\* agentRunOutputs !== null && <Card>: rows, or a LoadingBox when undefined
OutputCard(outputs) ==
    CASE outputs.state = "null" -> [shown |-> "absent", rows |-> <<>>]
      [] outputs.state = "undefined" -> [shown |-> "loading", rows |-> <<>>]
      [] OTHER ->
            [shown |-> "rows",
             rows |-> [i \in 1..Len(outputs.rows) |->
                          [label |-> RowLabel(outputs.rows[i]),
                           values |-> outputs.rows[i].values]]]

InputCard(inputs) ==
    IF inputs.defined
    THEN [shown |-> "rows",
          rows |-> [i \in 1..Len(inputs.rows) |->
                       [label |-> RowLabel(inputs.rows[i]),
                        value |-> inputs.rows[i].value]]]
    ELSE [shown |-> "loading", rows |-> <<>>]

RenderThrows(g, r) ==
    \/ infoStatsThrows(runStatusOf(r))
    \/ agentRunOutputsThrows(g, r, runStatusOf(r))

NoView ==
    [infoStats |-> <<>>,
     agentRunInputs |-> [defined |-> FALSE, rows |-> <<>>],
     agentRunOutputs |-> [state |-> "undefined", rows |-> <<>>],
     runActions |-> <<>>,
     outputCard |-> [shown |-> "absent", rows |-> <<>>],
     inputCard |-> [shown |-> "absent", rows |-> <<>>]]

ViewOf(ag, g, r) ==
    [infoStats |-> infoStats(r, runStatusOf(r)),
     agentRunInputs |-> agentRunInputs(g, r),
     agentRunOutputs |-> agentRunOutputs(g, r, runStatusOf(r)),
     runActions |-> runActions(ag, g, r, runStatusOf(r)),
     outputCard |-> OutputCard(agentRunOutputs(g, r, runStatusOf(r))),
     inputCard |-> InputCard(agentRunInputs(g, r))]

(***************************************************************************)
(* The props the caller can pass.                                          *)
(***************************************************************************)
GraphIDs == {"g1", "g2"}
Versions == 1..MaxVersion
RawStatuses == DOMAIN agentRunStatusMap \cup {"UNKNOWN"}

VObj == Obj(<< [key |-> "p", val |-> 1] >>)
VObj2 == Obj(<< [key |-> "p", val |-> 1], [key |-> "q", val |-> 2] >>)
VStr == Str(<<"x">>)

NoStats == [duration |-> 0, node_exec_count |-> 0, cost |-> 0]
NoSchema == [k \in {} |-> [title |-> Undefined]]

InputSchemas ==
    { NoSchema,
      [k \in {"a"} |-> [title |-> Str(<<"Alpha">>)]],
      [k \in {"a", "b"} |->
          IF k = "a" THEN [title |-> Undefined] ELSE [title |-> Str(<<>>)]] }

OutputSchemas ==
    { NoSchema,
      [k \in {"out"} |-> [title |-> Str(<<"Result">>)]],
      [k \in {"out", "extra"} |->
          IF k = "out" THEN [title |-> Undefined]
          ELSE [title |-> Str(<<"Extra">>)]] }

InputMaps ==
    { <<>>,
      << [key |-> "a", value |-> Num(1)] >>,
      << [key |-> "a", value |-> VObj], [key |-> "b", value |-> VStr] >>,
      << [key |-> "a", value |-> Null] >>,
      << [key |-> "a", value |-> VObj2], [key |-> "b", value |-> Obj(<<>>)] >> }

OutputMaps ==
    { <<>>,
      << [key |-> "out", values |-> << Num(1) >>] >>,
      << [key |-> "out", values |-> << VObj, VStr >>] >>,
      << [key |-> "out", values |-> << Null >>],
         [key |-> "extra", values |-> << Num(2), VObj2 >>] >> }

StatsValues ==
    { [duration |-> 2, node_exec_count |-> 4, cost |-> 3],
      [duration |-> 5, node_exec_count |-> 0, cost |-> 0] }

\* a GraphExecutionMeta has neither inputs nor outputs, a GraphExecution both
RunRecord(status, gid, gver, hasStats, stats, full, inputs, outputs) ==
    [id |-> "r1", graph_id |-> gid, graph_version |-> gver,
     status |-> status, started_at |-> 1,
     hasStats |-> hasStats, stats |-> stats,
     hasInputs |-> full, inputs |-> inputs,
     hasOutputs |-> full, outputs |-> outputs]

MetaRuns(gids, gvers, withStats) ==
    { RunRecord(st, gid, gver, FALSE, NoStats, FALSE, <<>>, <<>>) :
        st \in RawStatuses, gid \in gids, gver \in gvers }
    \cup
    { RunRecord(st, gid, gver, TRUE, s, FALSE, <<>>, <<>>) :
        st \in RawStatuses, gid \in gids, gver \in gvers, s \in withStats }

FullRuns(gids, gvers, withStats, inputMaps, outputMaps) ==
    { RunRecord(st, gid, gver, FALSE, NoStats, TRUE, i, o) :
        st \in RawStatuses, gid \in gids, gver \in gvers,
        i \in inputMaps, o \in outputMaps }
    \cup
    { RunRecord(st, gid, gver, TRUE, s, TRUE, i, o) :
        st \in RawStatuses, gid \in gids, gver \in gvers, s \in withStats,
        i \in inputMaps, o \in outputMaps }

Graphs(gids, gvers, triggers, creds, ischemas, oschemas) ==
    [id : gids, version : gvers, has_external_trigger : triggers,
     credentials_required : creds,
     input_schema : ischemas, output_schema : oschemas]

Agents(access) == [can_access_graph : access]

(***************************************************************************)
(* Init: the component is constructed with its props, nothing is rendered  *)
(* and no call was made.                                                   *)
(***************************************************************************)
InitWith(agents, graphs, runs) ==
    /\ agent \in agents
    /\ graph \in graphs
    /\ run \in runs
    /\ phase = "created"
    /\ view = NoView
    /\ executeCalls = <<>>
    /\ stopCalls = <<>>
    /\ onRunCalls = <<>>
    /\ toasts = <<>>
    /\ unhandled = <<>>
    /\ deleteCalls = 0
    /\ runAgainCalls = 0
    /\ stopRunCalls = 0

\* every combination the run actions and the handlers depend on
Init ==
    InitWith(Agents(BOOLEAN),
             Graphs(GraphIDs, Versions, BOOLEAN, {<<>>, <<"api_key">>},
                    {[k \in {"a"} |-> [title |-> Str(<<"Alpha">>)]]},
                    {[k \in {"out"} |-> [title |-> Str(<<"Result">>)]]}),
             MetaRuns(GraphIDs, Versions, {})
             \cup FullRuns(GraphIDs, Versions, {},
                           { <<>>,
                             << [key |-> "a", value |-> Num(1)] >>,
                             << [key |-> "a", value |-> VObj],
                                [key |-> "b", value |-> VStr] >> },
                           { << [key |-> "out", values |-> << Num(1) >>] >> }))

\* the statuses and the run records the handlers depend on, for a graph that
\* is the run's own
InitHandlers ==
    InitWith(Agents({TRUE}),
             Graphs({"g1"}, {1}, BOOLEAN, {<<>>, <<"api_key">>},
                    {[k \in {"a"} |-> [title |-> Str(<<"Alpha">>)]]},
                    {[k \in {"out"} |-> [title |-> Str(<<"Result">>)]]}),
             MetaRuns({"g1"}, {1}, {})
             \cup FullRuns({"g1"}, {1}, {},
                           { <<>>,
                             << [key |-> "a", value |-> Num(1)] >>,
                             << [key |-> "a", value |-> VObj],
                                [key |-> "b", value |-> VStr] >> },
                           { << [key |-> "out", values |-> << Num(1) >>] >> }))

\* every combination the info, input and output cards depend on
InitView ==
    InitWith(Agents({TRUE}),
             Graphs({"g1"}, {1}, {FALSE}, {<<>>}, InputSchemas, OutputSchemas),
             MetaRuns({"g1"}, {1}, StatsValues)
             \cup FullRuns({"g1"}, {1}, StatsValues, InputMaps, OutputMaps))

(***************************************************************************)
(* Actions.                                                                *)
(***************************************************************************)
\* the buttons pressed so far
Presses == runAgainCalls + stopRunCalls + deleteCalls

HasAction(label) ==
    \E i \in 1..Len(view.runActions) : view.runActions[i].label = label

\* the component function runs: every useMemo is computed, or one throws
Render ==
    /\ phase = "created"
    /\ IF RenderThrows(graph, run)
       THEN phase' = "crashed" /\ view' = NoView
       ELSE phase' = "mounted" /\ view' = ViewOf(agent, graph, run)
    /\ UNCHANGED <<agent, graph, run, executeCalls, stopCalls, onRunCalls,
                   toasts, unhandled, deleteCalls, runAgainCalls, stopRunCalls>>

\* Object.fromEntries(Object.entries(agentRunInputs).map(([k, v]) => [k, v.value]))
ExecutePayload(inputs) ==
    [i \in 1..Len(inputs.rows) |->
        [key |-> inputs.rows[i].key, value |-> inputs.rows[i].value]]

\* api.executeGraph(graph.id, graph.version, payload)
ExecuteCall(g, inputs) ==
    [graph_id |-> g.id, graph_version |-> g.version,
     payload |-> ExecutePayload(inputs),
     state |-> "pending", graph_exec_id |-> "none"]

\* the "Run again" button is pressed: runAgain()
RunAgain ==
    /\ phase = "mounted"
    /\ HasAction("Run again")
    /\ Presses < MaxCalls
    /\ runAgainCalls' = runAgainCalls + 1
    /\ executeCalls' =
          IF view.agentRunInputs.defined
          THEN Append(executeCalls, ExecuteCall(graph, view.agentRunInputs))
          ELSE executeCalls
    /\ UNCHANGED <<agent, graph, run, phase, view, stopCalls, onRunCalls,
                   toasts, unhandled, deleteCalls, stopRunCalls>>

\* toastOnFail("execute agent") as the .catch handler
ToastExecuteFailed(c) == [call |-> c, label |-> "execute agent"]

\* mutant: onRun is given the id of the run shown, not of the new one
ThenOnRun_CurrentRun(c, id, onRunThrows) ==
    /\ onRunCalls' = Append(onRunCalls,
                            [call |-> c, id |-> run.id, threw |-> onRunThrows])
    /\ toasts' = IF onRunThrows THEN Append(toasts, ToastExecuteFailed(c))
                 ELSE toasts

\* .then(({ graph_exec_id }) => onRun(graph_exec_id)).catch(...): the catch
\* also receives what onRun throws
ThenOnRun(c, id, onRunThrows) ==
    /\ onRunCalls' = Append(onRunCalls,
                            [call |-> c, id |-> id, threw |-> onRunThrows])
    /\ toasts' = IF onRunThrows THEN Append(toasts, ToastExecuteFailed(c))
                 ELSE toasts

\* an executeGraph call resolves with the id of the new execution
ExecuteResolves ==
    \E c \in 1..Len(executeCalls), id \in {"e1", "e2"}, onRunThrows \in BOOLEAN :
        /\ executeCalls[c].state = "pending"
        /\ executeCalls' = [executeCalls EXCEPT ![c].state = "resolved",
                                                ![c].graph_exec_id = id]
        /\ ThenOnRun(c, id, onRunThrows)
        /\ UNCHANGED <<agent, graph, run, phase, view, stopCalls, unhandled,
                       deleteCalls, runAgainCalls, stopRunCalls>>

\* an executeGraph call rejects
ExecuteRejects ==
    \E c \in 1..Len(executeCalls) :
        /\ executeCalls[c].state = "pending"
        /\ executeCalls' = [executeCalls EXCEPT ![c].state = "rejected"]
        /\ toasts' = Append(toasts, ToastExecuteFailed(c))
        /\ UNCHANGED <<agent, graph, run, phase, view, stopCalls, onRunCalls,
                       unhandled, deleteCalls, runAgainCalls, stopRunCalls>>

\* mutant: the graph id is read from the run record
StopCall_RunGraph(g, r) ==
    [graph_id |-> r.graph_id, run_id |-> r.id, state |-> "pending"]

\* api.stopGraphExecution(graph.id, run.id)
StopCall(g, r) == [graph_id |-> g.id, run_id |-> r.id, state |-> "pending"]

\* the "Stop run" button is pressed: stopRun()
StopRun ==
    /\ phase = "mounted"
    /\ HasAction("Stop run")
    /\ Presses < MaxCalls
    /\ stopRunCalls' = stopRunCalls + 1
    /\ stopCalls' = Append(stopCalls, StopCall(graph, run))
    /\ UNCHANGED <<agent, graph, run, phase, view, executeCalls, onRunCalls,
                   toasts, unhandled, deleteCalls, runAgainCalls>>

StopResolves ==
    \E c \in 1..Len(stopCalls) :
        /\ stopCalls[c].state = "pending"
        /\ stopCalls' = [stopCalls EXCEPT ![c].state = "resolved"]
        /\ UNCHANGED <<agent, graph, run, phase, view, executeCalls,
                       onRunCalls, toasts, unhandled, deleteCalls,
                       runAgainCalls, stopRunCalls>>

\* the promise stopRun returned rejects: nothing in the component handles it
StopRejects ==
    \E c \in 1..Len(stopCalls) :
        /\ stopCalls[c].state = "pending"
        /\ stopCalls' = [stopCalls EXCEPT ![c].state = "rejected"]
        /\ unhandled' = Append(unhandled, [call |-> c, of |-> "stopRun"])
        /\ UNCHANGED <<agent, graph, run, phase, view, executeCalls,
                       onRunCalls, toasts, deleteCalls, runAgainCalls, stopRunCalls>>

\* the "Delete run" button is pressed: the caller's deleteRun()
DeleteRun ==
    /\ phase = "mounted"
    /\ HasAction("Delete run")
    /\ Presses < MaxCalls
    /\ deleteCalls' = deleteCalls + 1
    /\ UNCHANGED <<agent, graph, run, phase, view, executeCalls, stopCalls,
                   onRunCalls, toasts, unhandled, runAgainCalls, stopRunCalls>>

Next ==
    \/ Render
    \/ RunAgain
    \/ ExecuteResolves
    \/ ExecuteRejects
    \/ StopRun
    \/ StopResolves
    \/ StopRejects
    \/ DeleteRun

Spec == Init /\ [][Next]_vars
SpecView == InitView /\ [][Next]_vars

\* a request the API client sent is answered or fails: a pending promise
\* settles
SpecFair == InitHandlers /\ [][Next]_vars /\ WF_vars(ExecuteResolves \/ ExecuteRejects)

(***************************************************************************)
(* Properties.                                                             *)
(***************************************************************************)
Mounted == phase = "mounted"
KnownStatus == run.status \in DOMAIN agentRunStatusMap

\* the list runActions computes from the current props, also for props
\* whose render throws before the list is used
CurrentActions == runActions(agent, graph, run, runStatusOf(run))

Labels(list) == [i \in 1..Len(list) |-> list[i].label]
Count(list, x) == Cardinality({i \in 1..Len(list) : list[i] = x})

\* C1: a queued or running run offers "Stop run" and never "Run again",
\* whatever the trigger flag, the required credentials and the builder
\* access are; and for no status, known or not, the list holds both.
C1_StopExcludesRunAgain ==
    /\ (Mounted /\ runStatusOf(run) \in {queued, running})
          => (HasAction("Stop run") /\ ~HasAction("Run again"))
    /\ runStatusOf(run) \in {queued, running}
          => /\ Includes(Labels(CurrentActions), "Stop run")
             /\ ~Includes(Labels(CurrentActions), "Run again")
    /\ ~(HasAction("Stop run") /\ HasAction("Run again"))
    /\ ~(/\ Includes(Labels(CurrentActions), "Stop run")
         /\ Includes(Labels(CurrentActions), "Run again"))

C1_Witness ==
    /\ Mounted
    /\ run.status = "QUEUED"
    /\ graph.has_external_trigger
    /\ graph.credentials_required # <<>>
    /\ HasAction("Stop run")
    /\ stopRunCalls > 0

\* C2: "Run again" is offered exactly when the status is success, failed or
\* stopped, the graph has no external trigger and no credential is required.
C2_RunAgainOffered ==
    LET offered == /\ run.status \in {"COMPLETED", "FAILED", "TERMINATED"}
                   /\ ~graph.has_external_trigger
                   /\ Len(graph.credentials_required) = 0
    IN  /\ Mounted => (HasAction("Run again") <=> offered)
        /\ Includes(Labels(CurrentActions), "Run again") <=> offered

C2_Witness ==
    /\ Mounted
    /\ run.status = "FAILED"
    /\ HasAction("Run again")
    /\ runAgainCalls > 0

C2_WitnessCredentials ==
    /\ Mounted
    /\ run.status = "COMPLETED"
    /\ ~graph.has_external_trigger
    /\ graph.credentials_required # <<>>
    /\ ~HasAction("Run again")

\* C3: the Output card is absent, with neither rows nor a loading
\* placeholder, whenever the status is outside running, success, failed,
\* stopped, for a full execution record and for a summary alike.
C3_OutputCardAbsent ==
    (Mounted /\ run.status \notin {"RUNNING", "COMPLETED", "FAILED", "TERMINATED"})
        => view.outputCard.shown = "absent"

\* C4: without inputs in the run record "Run again" does nothing; otherwise
\* each invocation issues one execute call for the run's graph id and graph
\* version, with the keys of the run's inputs mapped to the inputs' values.
C4_RunAgainSubmitsInputs ==
    /\ ~run.hasInputs
          => (executeCalls = <<>> /\ onRunCalls = <<>> /\ toasts = <<>>)
    /\ run.hasInputs => Len(executeCalls) = runAgainCalls
    /\ \A c \in 1..Len(executeCalls) :
          /\ executeCalls[c].graph_id = run.graph_id
          /\ executeCalls[c].graph_version = run.graph_version
          /\ Len(executeCalls[c].payload) = Len(run.inputs)
          /\ \A i \in 1..Len(run.inputs) :
                /\ executeCalls[c].payload[i].key = run.inputs[i].key
                /\ executeCalls[c].payload[i].value = run.inputs[i].value

OnRunsOf(c) == {i \in 1..Len(onRunCalls) : onRunCalls[i].call = c}
ToastsOf(c) == {i \in 1..Len(toasts) : toasts[i].call = c}

\* C5 as claimed: a call that succeeded led to one onRun with the returned
\* id and to no failure notification; a call that failed led to one
\* "execute agent" notification and to no onRun.
C5_ExactlyOneOutcome ==
    \A c \in 1..Len(executeCalls) :
        /\ executeCalls[c].state = "resolved"
              => /\ Cardinality(OnRunsOf(c)) = 1
                 /\ \A i \in OnRunsOf(c) :
                       onRunCalls[i].id = executeCalls[c].graph_exec_id
                 /\ ToastsOf(c) = {}
        /\ executeCalls[c].state = "rejected"
              => /\ OnRunsOf(c) = {}
                 /\ Cardinality(ToastsOf(c)) = 1
                 /\ \A i \in ToastsOf(c) : toasts[i].label = "execute agent"

\* the outcomes of the execute calls made so far
C5_Outcomes ==
    \A c \in 1..Len(executeCalls) :
        /\ executeCalls[c].state = "pending"
              => (OnRunsOf(c) = {} /\ ToastsOf(c) = {})
        /\ executeCalls[c].state = "resolved"
              => /\ Cardinality(OnRunsOf(c)) = 1
                 /\ \A i \in OnRunsOf(c) :
                       /\ onRunCalls[i].id = executeCalls[c].graph_exec_id
                       /\ onRunCalls[i].threw <=> ToastsOf(c) # {}
                 /\ Cardinality(ToastsOf(c)) <= 1
        /\ executeCalls[c].state = "rejected"
              => /\ OnRunsOf(c) = {}
                 /\ Cardinality(ToastsOf(c)) = 1
        /\ \A i \in ToastsOf(c) : toasts[i].label = "execute agent"

\* an execute call is only ever added by an invocation of runAgain, one at
\* a time, and the calls made before are left alone: nothing is retried
C5_NoRetry ==
    Len(executeCalls') # Len(executeCalls)
        => /\ runAgainCalls' = runAgainCalls + 1
           /\ Len(executeCalls') = Len(executeCalls) + 1
           /\ SubSeq(executeCalls', 1, Len(executeCalls)) = executeCalls
           /\ executeCalls'[Len(executeCalls')].state = "pending"

\* while the button is shown it can be pressed, whatever became of the
\* calls made before
C5_Reinvocable ==
    (Mounted /\ HasAction("Run again") /\ Presses < MaxCalls)
        => ENABLED RunAgain

\* C5, amended: every execute call eventually settles; if it succeeds onRun
\* is called once with the returned id, and the "execute agent" notification
\* is shown exactly when that onRun call throws; if it fails the
\* notification is shown once and onRun is not called.  Nothing is retried,
\* and "Run again" stays invocable after a failure and while a call is in
\* flight.
C5_OutcomeEventually ==
    /\ []C5_Outcomes
    /\ [][C5_NoRetry]_vars
    /\ []C5_Reinvocable
    /\ \A c \in 1..MaxCalls :
          (Len(executeCalls) >= c) ~>
              (Len(executeCalls) >= c /\ executeCalls[c].state # "pending")

C5_Witness ==
    /\ Len(executeCalls) = 2
    /\ executeCalls[1].state = "rejected"
    /\ executeCalls[2].state = "resolved"
    /\ Len(onRunCalls) = 1
    /\ ~onRunCalls[1].threw
    /\ Len(toasts) = 1

\* C6: an invocation of stopRun issues one stopGraphExecution call for the
\* graph's id and the run's id and does nothing else; a rejection of that
\* call is left unhandled: no toast, no onRun, no deleteRun.
C6_StopStep ==
    /\ stopRunCalls' # stopRunCalls
          => /\ stopCalls' = Append(stopCalls, [graph_id |-> graph.id,
                                                run_id |-> run.id,
                                                state |-> "pending"])
             /\ UNCHANGED <<executeCalls, onRunCalls, toasts, unhandled,
                            deleteCalls, runAgainCalls>>
    /\ Len(stopCalls') # Len(stopCalls) => stopRunCalls' = stopRunCalls + 1
    /\ \A c \in 1..Len(stopCalls) :
          (stopCalls[c].state = "pending" /\ stopCalls'[c].state = "rejected")
              => /\ Len(unhandled') = Len(unhandled) + 1
                 /\ unhandled'[Len(unhandled')] = [call |-> c, of |-> "stopRun"]
                 /\ UNCHANGED <<executeCalls, onRunCalls, toasts, deleteCalls>>

C6_StopRunOnly == [][C6_StopStep]_vars

C6_Witness ==
    /\ stopRunCalls = MaxCalls
    /\ graph.id # run.graph_id
    /\ stopCalls[1].state = "rejected"
    /\ Len(unhandled) = 1
    /\ toasts = <<>>

\* C7: "Open run in builder" is in the list exactly when can_access_graph
\* is true, whatever the status, and links to
\* /build?flowID=<run.graph_id>&flowVersion=<run.graph_version>&flowExecutionID=<run.id>
C7_ExpectedHref ==
    <<"/build?flowID=", run.graph_id, "&flowVersion=",
      Digits[run.graph_version + 1], "&flowExecutionID=", run.id>>

C7_OpenInBuilder ==
    /\ Includes(Labels(CurrentActions), "Open run in builder")
          <=> agent.can_access_graph
    /\ \A i \in 1..Len(CurrentActions) :
          CurrentActions[i].label = "Open run in builder"
              => CurrentActions[i].href = C7_ExpectedHref
    /\ Mounted =>
          /\ HasAction("Open run in builder") <=> agent.can_access_graph
          /\ \A i \in 1..Len(view.runActions) :
                view.runActions[i].label = "Open run in builder"
                    => view.runActions[i].href = C7_ExpectedHref

C7_Witness ==
    /\ Mounted
    /\ agent.can_access_graph
    /\ HasAction("Open run in builder")
    /\ graph.id # run.graph_id
    /\ graph.version # run.graph_version

\* C8: every input and output row is titled by the schema's title for its
\* key, or by the key when the schema has no title or no entry for it, which
\* is no error; objects are shown as their JSON with 2-space indentation and
\* scalars as they are.
C8_ExpectedLabel(schema, k) ==
    IF k \in DOMAIN schema /\ Truthy(schema[k].title)
    THEN schema[k].title
    ELSE Str(<<k>>)

C8_ExpectedValue(v) ==
    IF v.type \in {"object", "null"} THEN Str(JSONStringify(v, 2)) ELSE v

C8_TitlesAndValues ==
    /\ phase = "crashed" => ~KnownStatus
    /\ (Mounted /\ view.inputCard.shown = "rows") =>
          /\ Len(view.inputCard.rows) = Len(run.inputs)
          /\ \A i \in 1..Len(run.inputs) :
                /\ view.inputCard.rows[i].label =
                      C8_ExpectedLabel(graph.input_schema, run.inputs[i].key)
                /\ view.inputCard.rows[i].value =
                      C8_ExpectedValue(run.inputs[i].value)
    /\ (Mounted /\ view.outputCard.shown = "rows") =>
          /\ Len(view.outputCard.rows) = Len(run.outputs)
          /\ \A i \in 1..Len(run.outputs) :
                /\ view.outputCard.rows[i].label =
                      C8_ExpectedLabel(graph.output_schema, run.outputs[i].key)
                /\ view.outputCard.rows[i].values =
                      [j \in 1..Len(run.outputs[i].values) |->
                          C8_ExpectedValue(run.outputs[i].values[j])]

\* C9: for every status of the table the info stats start with Status, the
\* display status capitalized, and Started; with stats, Duration, Steps (the
\* node_exec_count as it is) and Cost follow in this order; without, the
\* list has these two entries only.
C9_Capitalized ==
    [s \in DOMAIN agentRunStatusMap |->
        CASE s = "INCOMPLETE" -> <<"D", "r", "a", "f", "t">>
          [] s = "COMPLETED" -> <<"S", "u", "c", "c", "e", "s", "s">>
          [] s = "FAILED" -> <<"F", "a", "i", "l", "e", "d">>
          [] s = "QUEUED" -> <<"Q", "u", "e", "u", "e", "d">>
          [] s = "RUNNING" -> <<"R", "u", "n", "n", "i", "n", "g">>
          [] s = "TERMINATED" -> <<"S", "t", "o", "p", "p", "e", "d">>]

C9_Holds(stats) ==
    /\ Len(stats) >= 2
    /\ stats[1].label = "Status"
    /\ stats[1].value.type = "string"
    /\ stats[1].value.text = C9_Capitalized[run.status]
    /\ stats[2].label = "Started"
    /\ IF run.hasStats
       THEN /\ Labels(stats) =
                  <<"Status", "Started", "Duration", "Steps", "Cost">>
            /\ stats[4].value.type = "number"
            /\ stats[4].value.num = run.stats.node_exec_count
       ELSE Labels(stats) = <<"Status", "Started">>

C9_InfoStats ==
    /\ KnownStatus => ~infoStatsThrows(runStatusOf(run))
    /\ KnownStatus => C9_Holds(infoStats(run, runStatusOf(run)))
    /\ Mounted => C9_Holds(view.infoStats)

C9_Witness ==
    /\ Mounted
    /\ run.status = "QUEUED"
    /\ run.hasStats
    /\ run.stats.node_exec_count = 4
    /\ Len(view.infoStats) = 5

C9_WitnessNoStats ==
    /\ Mounted
    /\ ~run.hasStats
    /\ Len(view.infoStats) = 2

\* C10: for every combination of the props the list ends with the one
\* "Delete run" action, bound to deleteRun; its elements come in the order
\* Stop run or Run again, Open run in builder, Delete run, so it has 1 to 3
\* elements and no label twice.
C10_Rank(label) ==
    CASE label \in {"Stop run", "Run again"} -> 1
      [] label = "Open run in builder" -> 2
      [] label = "Delete run" -> 3
      [] OTHER -> 0

C10_Holds(list) ==
    /\ Len(list) \in 1..3
    /\ list[Len(list)].label = "Delete run"
    /\ list[Len(list)].callback = "deleteRun"
    /\ Count(Labels(list), "Delete run") = 1
    /\ \A i \in 1..Len(list) : C10_Rank(list[i].label) > 0
    /\ \A i, j \in 1..Len(list) :
          i < j => C10_Rank(list[i].label) < C10_Rank(list[j].label)

C10_DeleteLast ==
    /\ C10_Holds(CurrentActions)
    /\ Mounted => C10_Holds(view.runActions)
    /\ deleteCalls > 0 => HasAction("Delete run")

C10_Witness ==
    /\ Mounted
    /\ Len(view.runActions) = 3
    /\ view.runActions[1].label = "Run again"
    /\ deleteCalls > 0

====
